---- MODULE Spec2Model ----
(***************************************************************************)
(* The analysis-form submit handler of static/js/script.js (DermaLume).   *)
(*                                                                         *)
(* One handler invocation runs for every submit event of #analysisForm.   *)
(* JavaScript runs each stretch of the async handler between two awaits    *)
(* to completion, so an invocation takes at most three atomic steps:       *)
(*   Submit        lines 44-79   (validation, disable, call fetch)         *)
(*   FetchResolve  line  76-82   (fetch settles, response.text() called)   *)
(*   TextResolve   lines 82-130  (parse, render or alert, catch, finally)  *)
(* and FetchReject / TextReject take the catch/finally path directly.      *)
(***************************************************************************)
EXTENDS Integers, Sequences, FiniteSets, TLC

\* Number of submit events delivered to the handler in one behaviour.
MaxSubmits == 2

(***************************************************************************)
(* JavaScript values.  Every value is a record of the same shape so that   *)
(* any two of them can be compared: t is the type tag, s the string        *)
(* payload, n the numeric payload (numbers are kept in thousandths).       *)
(***************************************************************************)
Undefined == [t |-> "undefined", s |-> "", n |-> 0]

Str(str) == [t |-> "string", s |-> str, n |-> 0]

Num(thousandths) == [t |-> "number", s |-> "", n |-> thousandths]

NaN == [t |-> "NaN", s |-> "", n |-> 0]

NativeFunction(name) == [t |-> "function", s |-> name, n |-> 0]

PlainObject == [t |-> "object", s |-> "Object", n |-> 0]

\* ToBoolean: what `!x` and `x || y` test.
Truthy(v) ==
  CASE v.t = "undefined" -> FALSE
    [] v.t = "NaN"       -> FALSE
    [] v.t = "string"    -> v.s # ""
    [] v.t = "number"    -> v.n # 0
    [] OTHER             -> TRUE

\* `a || b`
Or(a, b) == IF Truthy(a) THEN a ELSE b

\* Number::toString of k/1000 for k >= 0: the integer part, then the decimals
\* without trailing zeros.
NumberToString(k) ==
  LET int  == ToString(k \div 1000)
      frac == k % 1000
  IN  IF frac = 0 THEN int
      ELSE IF frac % 100 = 0 THEN int \o "." \o ToString(frac \div 100)
      ELSE IF frac % 10 = 0
           THEN int \o "." \o (IF frac < 100 THEN "0" ELSE "") \o ToString(frac \div 10)
      ELSE int \o "." \o (IF frac < 10 THEN "00" ELSE IF frac < 100 THEN "0" ELSE "")
               \o ToString(frac)

\* ToString: what string concatenation, template literals and an assignment
\* to textContent make of a value.
ToDisplayString(v) ==
  CASE v.t = "undefined" -> "undefined"
    [] v.t = "NaN"       -> "NaN"
    [] v.t = "string"    -> v.s
    [] v.t = "number"    -> NumberToString(v.n)
    [] v.t = "function"  -> "function " \o v.s \o "() { [native code] }"
    [] OTHER             -> "[object Object]"

(***************************************************************************)
(* The form's inputs (lines 47-50).                                        *)
(***************************************************************************)
ImageFiles == {Undefined, PlainObject}          \* files?.[0]
Ages       == {Str(""), Str("42")}              \* #age .value
Genders    == {Undefined, Str("female")}        \* :checked ?.value
Locations  == {Str(""), Str("arm")}             \* #location .value

Forms == [imageFile : ImageFiles, age : Ages, gender : Genders, location : Locations]

\* The check of line 52 with the location left out.
AllFieldsPresentButLocation(f) ==
  ~(~Truthy(f.imageFile) \/ ~Truthy(f.age) \/ ~Truthy(f.gender))

\* line 52, negated: the condition under which the handler goes on.
AllFieldsPresent(f) ==
  ~(~Truthy(f.imageFile) \/ ~Truthy(f.age) \/ ~Truthy(f.gender) \/ ~Truthy(f.location))

ValidationMessage == "Please fill all fields and upload an image"

(***************************************************************************)
(* Response bodies.  A body is the text response.text() yields; it is kept *)
(* as what it spells: kind "malformed" is text that is no JSON, "null"     *)
(* the text `null`, "number" a bare number, "object" an object with the    *)
(* four members the handler reads (Undefined where the member is absent).  *)
(***************************************************************************)
Body(kind, confidence, prediction, dx_full, error) ==
  [kind |-> kind, confidence |-> confidence, prediction |-> prediction,
   dx_full |-> dx_full, error |-> error]

MalformedBody == Body("malformed", Undefined, Undefined, Undefined, Undefined)
NullBody      == Body("null", Undefined, Undefined, Undefined, Undefined)
NumberBody    == Body("number", Undefined, Undefined, Undefined, Undefined)

KnownCodes == {"mel", "bcc", "akiec", "bkl", "nv", "df", "vasc"}

Predictions ==
  {Str(c) : c \in KnownCodes \cup {"xyz", "constructor", "toString"}} \cup {Undefined}

Confidences ==
  {Undefined, Num(0), Num(4), Num(125), Num(930), Num(996), Num(1000), Num(1250)}

ErrorMembers == {Undefined, Str(""), Str("bad image")}

ResponseTexts ==
  {MalformedBody, NullBody, NumberBody}
    \cup {Body("object", Num(930), p, Undefined, Undefined) : p \in Predictions}
    \cup {Body("object", c, Str("nv"), Undefined, Undefined) : c \in Confidences}
    \cup {Body("object", Num(995), Str("mel"), Str("Melanoma"), Undefined)}
    \cup {Body("object", Undefined, Undefined, Undefined, e) : e \in ErrorMembers}

Statuses == {200, 500}

\* response.ok
ResponseOk(status) == status >= 200 /\ status <= 299

\* What fetch() and response.text() reject with: the browser's TypeError.
NetworkErrorMessages == {"Failed to fetch", "Load failed"}

(***************************************************************************)
(* Exceptions.  An evaluation that can throw yields a record: threw says   *)
(* whether it did, message is the Error's message, value what it yields    *)
(* otherwise.                                                              *)
(***************************************************************************)
Returned(v) == [threw |-> FALSE, message |-> "", value |-> v]

Threw(msg) == [threw |-> TRUE, message |-> msg, value |-> Undefined]

\* lines 86-92: JSON.parse under the inner try; its catch rethrows.
ParseResponse(text) ==
  IF text.kind = "malformed"
  THEN Threw("Server returned invalid response")
  ELSE Returned(text)

\* result.<member>: a TypeError on null, undefined on a primitive.
GetMember(result, member) ==
  IF result.kind = "null"
  THEN Threw("Cannot read properties of null (reading '" \o member \o "')")
  ELSE IF result.kind = "number" THEN Returned(Undefined)
  ELSE Returned(CASE member = "confidence" -> result.confidence
                  [] member = "prediction" -> result.prediction
                  [] member = "dx_full"    -> result.dx_full
                  [] OTHER                 -> result.error)

\* x * 100 (ToNumber(undefined) is NaN).
TimesHundred(v) == IF v.t = "number" THEN Num(v.n * 100) ELSE NaN

\* Math.floor in the place of Math.round.
MathFloor(v) ==
  IF v.t = "number" THEN Num((v.n \div 1000) * 1000) ELSE NaN

\* Math.round: to the nearest integer, halves towards +Infinity.
MathRound(v) ==
  IF v.t = "number" THEN Num(((v.n + 500) \div 1000) * 1000) ELSE NaN

(***************************************************************************)
(* riskMapping (lines 100-108) is an object literal: a lookup finds its    *)
(* own members first and then the members it inherits from                 *)
(* Object.prototype.                                                       *)
(***************************************************************************)
riskMapping ==
  [c \in KnownCodes |->
     CASE c \in {"mel", "bcc"} -> "High Risk - Cancerous"
       [] c = "akiec"          -> "Medium Risk - Pre-cancerous"
       [] OTHER                -> "Low Risk - Benign"]

ObjectPrototypeMembers ==
  {"constructor", "toString", "toLocaleString", "valueOf", "hasOwnProperty",
   "isPrototypeOf", "propertyIsEnumerable"}

\* riskMapping[key]: the key is converted to a string first.
LookupRiskMapping(key) ==
  LET k == ToDisplayString(key)
  IN  IF k \in DOMAIN riskMapping THEN Str(riskMapping[k])
      ELSE IF k \in ObjectPrototypeMembers
           THEN NativeFunction(IF k = "constructor" THEN "Object" ELSE k)
      ELSE Undefined

\* line 110
RiskLevel(prediction) == Or(LookupRiskMapping(prediction), Str("Unknown Risk"))

\* String.prototype.includes
Includes(str, sub) ==
  \E i \in 1..(Len(str) - Len(sub) + 1) : SubSeq(str, i, i + Len(sub) - 1) = sub

\* line 115: the class name given to the risk pill.
PillClassName(label) ==
  "pill " \o (IF Includes(label, "High") THEN "high"
              ELSE IF Includes(label, "Medium") THEN "medium" ELSE "")

(***************************************************************************)
(* State.                                                                  *)
(*   form        the values of the four inputs the handler reads           *)
(*   submitBtn   #submitBtn: its disabled flag and its label               *)
(*   dom         the result fields: #confidence, #riskPill (text and       *)
(*               class name) and .result-heading                           *)
(*   pc          where each invocation of the submit handler stands:       *)
(*               "idle" (its event has not happened), "returned" (left at  *)
(*               line 54), "fetch" (awaiting fetch, line 76), "text"       *)
(*               (awaiting response.text(), line 82), "done"               *)
(*   status      response.status of an invocation awaiting the body        *)
(*   logged      the last response written to the console (lines 83-84)    *)
(*               and the invocation that wrote it                          *)
(*   alerted     the last alert() dialog and the invocation that raised it *)
(***************************************************************************)
VARIABLES form, submitBtn, dom, pc, status, logged, alerted

vars == <<form, submitBtn, dom, pc, status, logged, alerted>>

Handlers == 1..MaxSubmits

\* The invocations whose request is sent and not yet settled.
InFlight == {i \in Handlers : pc[i] \in {"fetch", "text"}}

\* lines 71-72 (the label's last character, U+2026, is written "..." here)
Busy(btn) == [btn EXCEPT !.disabled = TRUE, !.textContent = "Analyzing..."]

\* A cleanup that restores the label and leaves the control disabled.
FinallyLabelOnly(btn) == [btn EXCEPT !.textContent = "Submit Analysis"]

\* lines 127-130
Finally(btn) == [btn EXCEPT !.disabled = FALSE, !.textContent = "Submit Analysis"]

\* What one run of lines 86-126 leaves behind: the result fields, and the
\* alert it raised if it raised one.
Outcome(d, alert, text) == [dom |-> d, alert |-> alert, text |-> text]

\* A catch that drops the error's message.
CatchWithoutMessage(d, message) == Outcome(d, TRUE, "Error connecting to server")

\* lines 125-126
Catch(d, message) == Outcome(d, TRUE, "Error connecting to server: " \o message)

\* line 123
ErrorBranch(d, result) ==
  LET error == GetMember(result, "error")
  IN  IF error.threw THEN Catch(d, error.message)
      ELSE Outcome(d, TRUE,
             "Error: " \o ToDisplayString(Or(error.value, Str("Unknown error occurred"))))

\* lines 95-121, statement by statement; a throw leaves the assignments made
\* before it in place.
SuccessBranch(d, result) ==
  LET confidence == GetMember(result, "confidence")
  IN  IF confidence.threw THEN Catch(d, confidence.message)
      ELSE
        LET percent   == ToDisplayString(MathRound(TimesHundred(confidence.value))) \o "%"
            d1        == [d EXCEPT !.confidence = percent]
            riskLevel == RiskLevel(GetMember(result, "prediction").value)
            d2        == [d1 EXCEPT !.riskPillText = ToDisplayString(riskLevel)]
        IN  IF riskLevel.t # "string"
            THEN Catch(d2, "riskLevel.includes is not a function")
            ELSE
              LET d3    == [d2 EXCEPT !.riskPillClass = PillClassName(riskLevel.s)]
                  named == Or(GetMember(result, "dx_full").value,
                              GetMember(result, "prediction").value)
                  d4    == [d3 EXCEPT !.heading =
                              riskLevel.s \o ": " \o ToDisplayString(named)]
              IN  Outcome(d4, FALSE, "")

\* lines 86-126: what the handler does with a response once its body is read.
HandleResponse(d, st, text) ==
  LET parsed == ParseResponse(text)
  IN  IF parsed.threw THEN Catch(d, parsed.message)
      ELSE IF ResponseOk(st) THEN SuccessBranch(d, parsed.value)
      ELSE ErrorBranch(d, parsed.value)

Init ==
  /\ form \in Forms
  /\ submitBtn = [disabled |-> FALSE, textContent |-> "Submit Analysis"]
  /\ dom = [confidence |-> "", riskPillText |-> "", riskPillClass |-> "pill ",
            heading |-> ""]
  /\ pc = [i \in Handlers |-> "idle"]
  /\ status = [i \in Handlers |-> 0]
  /\ logged = [handler |-> 0, status |-> 0, text |-> MalformedBody]
  /\ alerted = [handler |-> 0, text |-> ""]

\* The user changes the inputs of the form (followed as long as a submit
\* event that reads them is still to come).
UserInput ==
  /\ \E i \in Handlers : pc[i] = "idle"
  /\ \E f \in Forms : f # form /\ form' = f
  /\ UNCHANGED <<submitBtn, dom, pc, status, logged, alerted>>

\* A submit event reaches the listener (lines 43-79).  The listener does not
\* look at the button: it runs whenever the event is dispatched.
Submit ==
  \E i \in Handlers :
    /\ pc[i] = "idle"
    /\ \A j \in Handlers : j < i => pc[j] # "idle"
    /\ IF AllFieldsPresent(form)
       THEN /\ submitBtn' = Busy(submitBtn)
            /\ pc' = [pc EXCEPT ![i] = "fetch"]
            /\ UNCHANGED alerted
       ELSE /\ alerted' = [handler |-> i, text |-> ValidationMessage]
            /\ pc' = [pc EXCEPT ![i] = "returned"]
            /\ UNCHANGED submitBtn
    /\ UNCHANGED <<form, dom, status, logged>>

\* fetch() fulfils with a response; the handler calls response.text() (line 82).
FetchResolve ==
  \E i \in Handlers, st \in Statuses :
    /\ pc[i] = "fetch"
    /\ pc' = [pc EXCEPT ![i] = "text"]
    /\ status' = [status EXCEPT ![i] = st]
    /\ UNCHANGED <<form, submitBtn, dom, logged, alerted>>

\* fetch() rejects: catch (line 126), finally (lines 128-129).
FetchReject ==
  \E i \in Handlers, msg \in NetworkErrorMessages :
    /\ pc[i] = "fetch"
    /\ alerted' = [handler |-> i, text |-> Catch(dom, msg).text]
    /\ submitBtn' = Finally(submitBtn)
    /\ pc' = [pc EXCEPT ![i] = "done"]
    /\ UNCHANGED <<form, dom, status, logged>>

\* response.text() fulfils with the body: lines 82-130 run to the end.
TextResolve ==
  \E i \in Handlers, text \in ResponseTexts :
    /\ pc[i] = "text"
    /\ logged' = [handler |-> i, status |-> status[i], text |-> text]
    /\ LET out == HandleResponse(dom, status[i], text)
       IN  /\ dom' = out.dom
           /\ alerted' = IF out.alert THEN [handler |-> i, text |-> out.text]
                         ELSE alerted
    /\ submitBtn' = Finally(submitBtn)
    /\ pc' = [pc EXCEPT ![i] = "done"]
    /\ status' = [status EXCEPT ![i] = 0]
    /\ UNCHANGED form

\* response.text() rejects (the connection drops while the body is read).
TextReject ==
  \E i \in Handlers, msg \in NetworkErrorMessages :
    /\ pc[i] = "text"
    /\ alerted' = [handler |-> i, text |-> Catch(dom, msg).text]
    /\ submitBtn' = Finally(submitBtn)
    /\ pc' = [pc EXCEPT ![i] = "done"]
    /\ status' = [status EXCEPT ![i] = 0]
    /\ UNCHANGED <<form, dom, logged>>

Next ==
  \/ UserInput
  \/ Submit
  \/ FetchResolve
  \/ FetchReject
  \/ TextResolve
  \/ TextReject

Spec == Init /\ [][Next]_vars

(***************************************************************************)
(* Reading a step.  Each invocation writes to the console at most once and *)
(* raises at most one alert, and both records name the invocation, so      *)
(*   logged' # logged    holds of exactly the steps that run lines 83-130  *)
(*   alerted' # alerted  holds of exactly the steps that call alert().     *)
(***************************************************************************)
SubmitEvent(i) == pc[i] = "idle" /\ pc'[i] # "idle"

Settles(i) == pc[i] \in {"fetch", "text"} /\ pc'[i] = "done"

BodyRead == logged' # logged

AlertShown == alerted' # alerted

DefaultButton == [disabled |-> FALSE, textContent |-> "Submit Analysis"]

BusyButton == [disabled |-> TRUE, textContent |-> "Analyzing..."]

\* The category-to-risk table as the specification prints it.
TableLabel(prediction) ==
  IF prediction \in {Str("mel"), Str("bcc")} THEN "High Risk - Cancerous"
  ELSE IF prediction = Str("akiec") THEN "Medium Risk - Pre-cancerous"
  ELSE IF prediction \in {Str("bkl"), Str("nv"), Str("df"), Str("vasc")}
       THEN "Low Risk - Benign"
  ELSE "Unknown Risk"

\* The styling category that goes with a displayed label.
TableClass(label) ==
  IF label = "High Risk - Cancerous" THEN "pill high"
  ELSE IF label = "Medium Risk - Pre-cancerous" THEN "pill medium"
  ELSE "pill "

AnyInputMissing ==
  \/ form.imageFile = Undefined
  \/ form.age = Str("")
  \/ form.gender = Undefined
  \/ form.location = Str("")

ParseFailureAlert == "Error connecting to server: Server returned invalid response"

(***************************************************************************)
(* C1: a submit event that finds one of the four inputs absent or empty    *)
(* sends no request, shows 'Please fill all fields and upload an image',   *)
(* and leaves the submit control as it was.                                *)
(***************************************************************************)
C1_ValidationStopsSubmission ==
  [][\A i \in Handlers :
       (SubmitEvent(i) /\ AnyInputMissing) =>
         /\ pc'[i] = "returned"
         /\ InFlight' = InFlight
         /\ alerted' = [handler |-> i,
                        text |-> "Please fill all fields and upload an image"]
         /\ submitBtn' = submitBtn
         /\ dom' = dom]_vars

C1_Witness ==
  \E i \in Handlers :
    /\ pc[i] = "returned"
    /\ AnyInputMissing
    /\ alerted = [handler |-> i, text |-> "Please fill all fields and upload an image"]
    /\ InFlight = {}
    /\ submitBtn = DefaultButton

(***************************************************************************)
(* C2: whenever a validated submission settles (success status, error      *)
(* status, rejected fetch, unreadable or unparseable body, exception while *)
(* rendering), the step that settles it leaves the submit control enabled  *)
(* and labelled 'Submit Analysis'.                                         *)
(***************************************************************************)
C2_ControlRestored ==
  [][\A i \in Handlers : Settles(i) => submitBtn' = DefaultButton]_vars

\* A submission that threw while rendering has settled, the control restored.
C2_Witness ==
  /\ alerted.handler \in Handlers
  /\ pc[alerted.handler] = "done"
  /\ alerted.text = "Error connecting to server: riskLevel.includes is not a function"
  /\ submitBtn = DefaultButton

(***************************************************************************)
(* C3: at most one analysis request is in flight at any time.              *)
(***************************************************************************)
C3_AtMostOneInFlight == Cardinality(InFlight) <= 1

(***************************************************************************)
(* C4: on a success status the risk pill shows the table's label for the   *)
(* seven known codes and exactly 'Unknown Risk' for every other            *)
(* prediction, absent ones and names of inherited members included.        *)
(***************************************************************************)
C4_RiskLabelFromTable ==
  [][(BodyRead /\ ResponseOk(logged'.status)
        /\ logged'.text.kind \in {"object", "number"}) =>
       dom'.riskPillText = TableLabel(logged'.text.prediction)]_vars

(***************************************************************************)
(* C5: a non-success response whose body parses shows 'Error: ' and the    *)
(* server's message, or 'Error: Unknown error occurred' when there is      *)
(* none (a body that is no object, such as null, included), and changes    *)
(* no result field.                                                        *)
(***************************************************************************)
C5_ServerErrorSurfaced ==
  [][(BodyRead /\ ~ResponseOk(logged'.status) /\ logged'.text.kind # "malformed") =>
       /\ alerted'.handler = logged'.handler
       /\ alerted'.text =
            "Error: " \o (IF Truthy(logged'.text.error) THEN logged'.text.error.s
                          ELSE "Unknown error occurred")
       /\ dom' = dom]_vars

(***************************************************************************)
(* C6: a body that does not parse, whatever the status, ends the handler   *)
(* normally with no result rendered and with the alert 'Error connecting   *)
(* to server: Server returned invalid response', a text that no failure of *)
(* the network call itself produces.                                       *)
(***************************************************************************)
C6_ParseFailureSurfaced ==
  [][/\ (BodyRead /\ logged'.text.kind = "malformed") =>
          /\ dom' = dom
          /\ alerted' = [handler |-> logged'.handler, text |-> ParseFailureAlert]
          /\ pc'[logged'.handler] = "done"
          /\ submitBtn' = DefaultButton
     /\ \A i \in Handlers :
          (Settles(i) /\ ~BodyRead) =>
             /\ alerted'.handler = i
             /\ alerted'.text # ParseFailureAlert]_vars

C6_Witness ==
  /\ logged.handler \in Handlers
  /\ logged.text.kind = "malformed"
  /\ logged.status = 200
  /\ alerted = [handler |-> logged.handler, text |-> ParseFailureAlert]
  /\ pc[logged.handler] = "done"

(***************************************************************************)
(* C7: whenever a request is in flight the submit control is disabled and  *)
(* shows the busy label.                                                   *)
(***************************************************************************)
C7_BusyWhileInFlight == InFlight # {} => submitBtn = BusyButton

(***************************************************************************)
(* C8: the risk pill's styling category is 'high' exactly for the High     *)
(* label, 'medium' exactly for the Medium label and none otherwise: it     *)
(* always agrees with the label text displayed at the same time.           *)
(***************************************************************************)
C8_ClassAgreesWithLabel == dom.riskPillClass = TableClass(dom.riskPillText)

C10_ResultOrErrorNeverBoth ==
  [][/\ AlertShown => dom' = dom
     /\ dom' # dom =>
          /\ ~AlertShown
          /\ BodyRead
          /\ dom'.riskPillText = TableLabel(logged'.text.prediction)
          /\ dom'.riskPillClass = TableClass(dom'.riskPillText)]_vars

====
